---- MODULE Spec2Model ----
(***************************************************************************)
(* A model of the go-gpt3 client (gpt3.go, models.go): request building,   *)
(* the transport call, status classification and error normalisation, JSON *)
(* decoding of the response body, and the line-oriented streaming loop of  *)
(* CompletionStreamWithEngine.                                             *)
(*                                                                         *)
(* Byte strings are modelled as TEXTS: finite sequences of lexemes.  A     *)
(* lexeme is a run of bytes that the code never splits: one white-space    *)
(* byte, the bytes "data:", the bytes "[DONE]", a run of bytes that is not *)
(* JSON, or the complete serialisation of one JSON value.  Go strings are  *)
(* texts too, so that string(data) and a decoded JSON string have one type.*)
(***************************************************************************)
EXTENDS Integers, Sequences, FiniteSets, TLC

(***************************************************************************)
(* Bounds of the model.                                                    *)
(***************************************************************************)
\* lines the server sends on one streaming response
MaxLines == 3
\* lines one read of the response body may put into the bufio buffer
MaxChunk == 2
\* calls in flight at once on one client
MaxCalls == 2

(***************************************************************************)
(* Lexemes.                                                                *)
(***************************************************************************)
SP == " "
NL == "\n"
IsSpace(x) == x \in {SP, NL}

\* JSON syntax trees
Null == [t |-> "null"]
Str(s) == [t |-> "str", s |-> s]
Num(n) == [t |-> "num", n |-> n]
Bool(b) == [t |-> "bool", b |-> b]
Obj(f) == [t |-> "obj", f |-> f]
EmptyFields == [x \in {} |-> Null]

\* The lexemes that are the serialisation of one JSON value.
ValueLexemes ==
  {"ENV_tm", "ENV_sc", "ENV_sc_null", "ENV_sc_str", "ENV_type_num", "OBJ_empty",
   "OBJ_other", "ERR_str", "NULL", "STR", "CR1", "CR2", "CR_badtype",
   "LIST", "EDIT", "FILE", "FT_pending", "FT_done"}

\* The JSON value a value lexeme spells.
JSONValueOf(lx) ==
  CASE lx = "ENV_tm" ->
         Obj([error |-> Obj([type |-> Str(<<"test_type">>),
                             message |-> Str(<<"test message">>)])])
    [] lx = "ENV_sc" ->
         Obj([error |-> Obj([status_code |-> Num(418),
                             type |-> Str(<<"t2">>),
                             message |-> Str(<<"m2">>)])])
    [] lx = "ENV_sc_null" ->
         Obj([error |-> Obj([status_code |-> Null,
                             type |-> Str(<<"t3">>),
                             message |-> Str(<<>>)])])
    [] lx = "ENV_sc_str" ->
         Obj([error |-> Obj([status_code |-> Str(<<"418">>),
                             type |-> Str(<<"t4">>),
                             message |-> Str(<<"m4">>)])])
    [] lx = "ENV_type_num" ->
         Obj([error |-> Obj([type |-> Num(7), message |-> Str(<<"m5">>)])])
    [] lx = "OBJ_empty" -> Obj(EmptyFields)
    [] lx = "OBJ_other" -> Obj([message |-> Str(<<"oops">>)])
    [] lx = "ERR_str" -> Obj([error |-> Str(<<"bad key">>)])
    [] lx = "NULL" -> Null
    [] lx = "STR" -> Str(<<"some string">>)
    [] lx = "CR1" -> Obj([id |-> Str(<<"c1">>), created |-> Num(1)])
    [] lx = "CR2" -> Obj([id |-> Str(<<"c2">>), created |-> Num(2)])
    [] lx = "CR_badtype" -> Obj([id |-> Num(5), created |-> Num(3)])
    [] lx = "LIST" -> Obj([object |-> Str(<<"list">>)])
    [] lx = "EDIT" -> Obj([object |-> Str(<<"edit">>), created |-> Num(0)])
    [] lx = "FILE" -> Obj([id |-> Str(<<"123">>), object |-> Str(<<>>)])
    [] lx = "FT_pending" ->
         Obj([id |-> Str(<<"ft-1">>), fine_tuned_model |-> Null])
    [] lx = "FT_done" ->
         Obj([id |-> Str(<<"ft-1">>), fine_tuned_model |-> Str(<<"m1">>)])

IsValue(lx) == lx \in ValueLexemes

(***************************************************************************)
(* Go values: errors and struct types.                                     *)
(***************************************************************************)
NoError == [kind |-> "nil"]
EOF == [kind |-> "io.EOF"]
ReadError == [kind |-> "read error"]
Canceled == [kind |-> "context canceled"]
SyntaxError(msg) == [kind |-> "json.SyntaxError", msg |-> msg]
UnmarshalTypeError == [kind |-> "json.UnmarshalTypeError"]
UnsupportedValueError == [kind |-> "json.UnsupportedValueError"]
\* fmt.Errorf(prefix + "%w" or "%v", cause)
Errorf(prefix, cause) == [kind |-> "fmt.Errorf", prefix |-> prefix, cause |-> cause]

\* type descriptors of the structs json decodes into (models.go)
TString == [k |-> "string"]
TInt == [k |-> "int"]
TStruct(fields) == [k |-> "struct", fields |-> fields]
TPtr(elem) == [k |-> "ptr", elem |-> elem]
\* pointer values
NilPtr == [kind |-> "nil"]
Ptr(v) == [kind |-> "ptr", v |-> v]

APIErrorType ==
  TStruct([status_code |-> TInt, message |-> TString, type |-> TString])
APIErrorResponseType == TStruct([error |-> APIErrorType])
CompletionResponseType == TStruct([id |-> TString, created |-> TInt])
FineTuneResponseType ==
  TStruct([id |-> TString, fine_tuned_model |-> TPtr(TString)])

\* the zero value of a type
RECURSIVE Zero(_)
Zero(ty) ==
  CASE ty.k = "string" -> <<>>
    [] ty.k = "int" -> 0
    [] ty.k = "ptr" -> NilPtr
    [] ty.k = "struct" -> [fn \in DOMAIN ty.fields |-> Zero(ty.fields[fn])]

\* encoding/json encoding a value of type ty: a struct becomes an object
\* with one member per field (no response field is omitempty), a nil pointer
\* becomes null, any other pointer what it points to.
RECURSIVE EncodeValue(_, _)
EncodeValue(ty, v) ==
  CASE ty.k = "string" -> Str(v)
    [] ty.k = "int" -> Num(v)
    [] ty.k = "ptr" -> IF v = NilPtr THEN Null ELSE EncodeValue(ty.elem, v.v)
    [] ty.k = "struct" ->
         Obj([fn \in DOMAIN ty.fields |-> EncodeValue(ty.fields[fn], v[fn])])

\* encoding/json decoding a syntax tree into a value of type ty: null leaves
\* the zero value, a JSON value of the wrong kind is an UnmarshalTypeError,
\* object members the struct does not declare are skipped, members the
\* object lacks stay zero, a pointer is set to a new decoded element.
RECURSIVE DecodeValue(_, _)
DecodeValue(ty, tree) ==
  IF tree.t = "null" THEN [ok |-> TRUE, v |-> Zero(ty)]
  ELSE CASE ty.k = "string" ->
              IF tree.t = "str" THEN [ok |-> TRUE, v |-> tree.s]
              ELSE [ok |-> FALSE, v |-> Zero(ty)]
         [] ty.k = "int" ->
              IF tree.t = "num" THEN [ok |-> TRUE, v |-> tree.n]
              ELSE [ok |-> FALSE, v |-> Zero(ty)]
         [] ty.k = "ptr" ->
              LET d == DecodeValue(ty.elem, tree) IN
              [ok |-> d.ok, v |-> IF d.ok THEN Ptr(d.v) ELSE NilPtr]
         [] ty.k = "struct" ->
              IF tree.t # "obj" THEN [ok |-> FALSE, v |-> Zero(ty)]
              ELSE LET sub == [fn \in DOMAIN ty.fields |->
                                 IF fn \in DOMAIN tree.f
                                 THEN DecodeValue(ty.fields[fn], tree.f[fn])
                                 ELSE [ok |-> TRUE, v |-> Zero(ty.fields[fn])]]
                   IN [ok |-> \A fn \in DOMAIN sub : sub[fn].ok,
                       v |-> [fn \in DOMAIN sub |-> sub[fn].v]]

\* bytes.TrimSpace
RECURSIVE TrimLeft(_)
TrimLeft(text) ==
  IF text # <<>> /\ IsSpace(Head(text)) THEN TrimLeft(Tail(text)) ELSE text
RECURSIVE TrimRight(_)
TrimRight(text) ==
  IF text # <<>> /\ IsSpace(text[Len(text)])
  THEN TrimRight(SubSeq(text, 1, Len(text) - 1)) ELSE text
TrimSpace(text) == TrimRight(TrimLeft(text))

\* bytes.HasPrefix, bytes.TrimPrefix
HasPrefix(text, prefix) ==
  Len(text) >= Len(prefix) /\ SubSeq(text, 1, Len(prefix)) = prefix
TrimPrefix(text, prefix) ==
  IF HasPrefix(text, prefix) THEN SubSeq(text, Len(prefix) + 1, Len(text)) ELSE text

\* json.Unmarshal(data, &v), v of type ty: the whole of data must be one JSON
\* value with white space around it, and the value must decode into ty.
Unmarshal(data, ty) ==
  LET t == TrimSpace(data) IN
  IF t = <<>> THEN [err |-> SyntaxError("unexpected end of JSON input"), v |-> Zero(ty)]
  ELSE IF ~IsValue(t[1])
       THEN [err |-> SyntaxError("invalid character"), v |-> Zero(ty)]
  ELSE IF Len(t) > 1
       THEN [err |-> SyntaxError("invalid character after top-level value"),
             v |-> Zero(ty)]
  ELSE LET d == DecodeValue(ty, JSONValueOf(t[1])) IN
       [err |-> IF d.ok THEN NoError ELSE UnmarshalTypeError, v |-> d.v]

\* json.NewDecoder(r).Decode(&v): reads the NEXT JSON value of the stream and
\* decodes it; what follows the value is not looked at.  Only when no value
\* starts the stream does the end of the stream (io.EOF, or the read's
\* error) surface.
DecoderDecode_intoCopy(body, ty) ==
  LET t == TrimLeft(body.text) IN
  IF t = <<>>
  THEN [err |-> IF body.readErr THEN ReadError ELSE EOF, v |-> Zero(ty)]
  ELSE IF ~IsValue(t[1])
       THEN [err |-> SyntaxError("invalid character"), v |-> Zero(ty)]
  ELSE LET d == DecodeValue(ty, JSONValueOf(t[1])) IN
       [err |-> IF d.ok THEN NoError ELSE UnmarshalTypeError, v |-> Zero(ty)]
DecoderDecode(body, ty) ==
  LET t == TrimLeft(body.text) IN
  IF t = <<>>
  THEN [err |-> IF body.readErr THEN ReadError ELSE EOF, v |-> Zero(ty)]
  ELSE IF ~IsValue(t[1])
       THEN [err |-> SyntaxError("invalid character"), v |-> Zero(ty)]
  ELSE LET d == DecodeValue(ty, JSONValueOf(t[1])) IN
       [err |-> IF d.ok THEN NoError ELSE UnmarshalTypeError, v |-> d.v]

(***************************************************************************)
(* The client and the operations of the Client interface.                  *)
(***************************************************************************)
DavinciEngine == <<"davinci">>
DefaultEngine == DavinciEngine
defaultBaseURL == <<"https://api.openai.com/v1">>
defaultUserAgent == <<"go-gpt3">>

\* NewClient: the defaults, then every option applied to the client.  An
\* option is a function that assigns one field; the model draws the
\* organisation id and the default engine an option may set.
NewClient(apiKey, idOrg, defaultEngine) ==
  [userAgent |-> defaultUserAgent,
   apiKey |-> apiKey,
   baseURL |-> defaultBaseURL,
   defaultEngine |-> defaultEngine,
   idOrg |-> idOrg]

Clients ==
  {NewClient(<<"test-key">>, <<>>, DefaultEngine),
   NewClient(<<"test-key">>, <<"org-1">>, <<"curie">>)}

Ops ==
  {"Engines", "Engine", "Completion", "CompletionWithEngine", "CompletionStream",
   "CompletionStreamWithEngine", "Edits", "Search", "SearchWithEngine",
   "UploadFile", "DeleteFile", "CreateFineTune", "CreateFineTuneWithOptions",
   "GetFineTune"}
StreamOps == {"CompletionStream", "CompletionStreamWithEngine"}
CompletionOps == {"Completion", "CompletionWithEngine"} \cup StreamOps
\* operations whose payload has floating-point fields (which may hold NaN)
FloatOps == CompletionOps \cup {"Edits", "CreateFineTuneWithOptions"}
\* operations with an engine, file id, job id or file name argument
ArgOps ==
  {"Engine", "CompletionWithEngine", "CompletionStreamWithEngine", "SearchWithEngine",
   "UploadFile", "DeleteFile", "CreateFineTune", "GetFineTune"}

\* What the caller passes: arg is the engine / id / file name argument,
\* Stream the caller's CompletionRequest.Stream, nan whether a float field
\* of the payload holds NaN, fileOK whether os.Open(filename) succeeds.
Input(arg, stream, nan, fileOK) ==
  [arg |-> arg, Stream |-> stream, nan |-> nan, fileOK |-> fileOK]
NoInput == Input(<<>>, FALSE, FALSE, TRUE)
InputsOf(op) ==
  {Input(a, s, n, f) :
     a \in (IF op \in ArgOps THEN {<<"ada">>} ELSE {<<>>}),
     s \in (IF op \in CompletionOps THEN BOOLEAN ELSE {FALSE}),
     n \in (IF op \in FloatOps THEN BOOLEAN ELSE {FALSE}),
     f \in (IF op = "UploadFile" THEN BOOLEAN ELSE {TRUE})}

\* payloads (Go values handed to newRequest)
NilPayload == [kind |-> "nil"]
CompletionRequest(stream, nan) ==
  [kind |-> "CompletionRequest", Stream |-> stream, nan |-> nan]
OtherPayload(kind, nan) == [kind |-> kind, nan |-> nan]

\* json.Marshal of a payload: a float field holding NaN cannot be encoded;
\* CompletionRequest.Stream is tagged omitempty, so it is written only
\* when true.
Marshal(payload) ==
  IF payload.nan THEN [err |-> UnsupportedValueError, json |-> Null]
  ELSE IF payload.kind = "CompletionRequest"
       THEN [err |-> NoError,
             json |-> IF payload.Stream
                      THEN Obj([prompt |-> Str(<<>>), stream |-> Bool(TRUE)])
                      ELSE Obj([prompt |-> Str(<<>>)])]
  ELSE [err |-> NoError, json |-> Obj(EmptyFields)]

EmptyBody == [kind |-> "empty"]
JSONBody(tree) == [kind |-> "json", json |-> tree]
MultipartBody == [kind |-> "multipart"]

jsonBodyReader(body) ==
  IF body = NilPayload THEN [err |-> NoError, reader |-> EmptyBody]
  ELSE LET raw == Marshal(body) IN
       IF raw.err # NoError
       THEN [err |-> Errorf("failed encoding json: ", raw.err), reader |-> EmptyBody]
       ELSE [err |-> NoError, reader |-> JSONBody(raw.json)]

\* http.Header
NoHeaders == [n \in {} |-> <<>>]
HeaderSet(h, name, value) ==
  [n \in DOMAIN h \cup {name} |-> IF n = name THEN value ELSE h[n]]

NoRequest == [kind |-> "none"]
Request(method, url, header, body) ==
  [kind |-> "request", method |-> method, url |-> url, header |-> header,
   body |-> body]

newRequest(c, method, path, payload) ==
  LET b == jsonBodyReader(payload) IN
  IF b.err # NoError THEN [err |-> b.err, req |-> NoRequest]
  ELSE LET url == c.baseURL \o path
           h0 == IF Len(c.idOrg) > 0
                 THEN HeaderSet(NoHeaders, "OpenAI-Organization", c.idOrg)
                 ELSE NoHeaders
           h1 == HeaderSet(h0, "Content-Type", <<"application/json">>)
           h2 == HeaderSet(h1, "Authorization", <<"Bearer ">> \o c.apiKey)
       IN [err |-> NoError, req |-> Request(method, url, h2, b.reader)]

\* UploadFile up to its call of performRequest: it builds the request itself.
UploadFileRequest(c, in) ==
  IF ~in.fileOK THEN [err |-> [kind |-> "os.PathError"], req |-> NoRequest]
  ELSE LET url == c.baseURL \o <<"/files">>
           h1 == HeaderSet(NoHeaders, "Content-Type", <<"multipart/form-data">>)
           h2 == HeaderSet(h1, "Authorization", <<"Bearer ">> \o c.apiKey)
       IN [err |-> NoError, req |-> Request("POST", url, h2, MultipartBody)]

CompletionWithEngineRequest_keepsStream(c, engine, request) ==
  newRequest(c, "POST", <<"/engines/">> \o engine \o <<"/completions">>, request)
CompletionWithEngineRequest(c, engine, request) ==
  LET r == [request EXCEPT !.Stream = FALSE] IN
  newRequest(c, "POST", <<"/engines/">> \o engine \o <<"/completions">>, r)

CompletionStreamWithEngineRequest(c, engine, request) ==
  LET r == [request EXCEPT !.Stream = TRUE] IN
  newRequest(c, "POST", <<"/engines/">> \o engine \o <<"/completions">>, r)

SearchWithEngineRequest_usesDefault(c, engine, in) ==
  newRequest(c, "POST", <<"/engines/">> \o c.defaultEngine \o <<"/search">>,
             OtherPayload("SearchRequest", FALSE))
SearchWithEngineRequest(c, engine, in) ==
  newRequest(c, "POST", <<"/engines/">> \o engine \o <<"/search">>,
             OtherPayload("SearchRequest", FALSE))

\* Each operation up to its call of performRequest.
BuildRequest(c, op, in) ==
  CASE op = "Engines" -> newRequest(c, "GET", <<"/engines">>, NilPayload)
    [] op = "Engine" -> newRequest(c, "GET", <<"/engines/">> \o in.arg, NilPayload)
    [] op = "Completion" ->
         CompletionWithEngineRequest(c, c.defaultEngine,
                                     CompletionRequest(in.Stream, in.nan))
    [] op = "CompletionWithEngine" ->
         CompletionWithEngineRequest(c, in.arg, CompletionRequest(in.Stream, in.nan))
    [] op = "CompletionStream" ->
         CompletionStreamWithEngineRequest(c, c.defaultEngine,
                                           CompletionRequest(in.Stream, in.nan))
    [] op = "CompletionStreamWithEngine" ->
         CompletionStreamWithEngineRequest(c, in.arg,
                                           CompletionRequest(in.Stream, in.nan))
    [] op = "Edits" ->
         newRequest(c, "POST", <<"/edits">>, OtherPayload("EditsRequest", in.nan))
    [] op = "Search" -> SearchWithEngineRequest(c, c.defaultEngine, in)
    [] op = "SearchWithEngine" -> SearchWithEngineRequest(c, in.arg, in)
    [] op = "UploadFile" -> UploadFileRequest(c, in)
    [] op = "DeleteFile" -> newRequest(c, "DELETE", <<"/files/">> \o in.arg, NilPayload)
    [] op = "CreateFineTune" ->
         newRequest(c, "POST", <<"/fine-tunes">>, OtherPayload("FineTuneOptions", FALSE))
    [] op = "CreateFineTuneWithOptions" ->
         newRequest(c, "POST", <<"/fine-tunes">>,
                    OtherPayload("FineTuneOptions", in.nan))
    [] op = "GetFineTune" ->
         newRequest(c, "GET", <<"/fine-tunes/">> \o in.arg, NilPayload)

\* the struct each operation decodes its response into (output := new(...))
ResultType(op) ==
  CASE op \in {"Engines", "Search", "SearchWithEngine"} -> TStruct([object |-> TString])
    [] op \in CompletionOps -> CompletionResponseType
    [] op = "Edits" -> TStruct([object |-> TString, created |-> TInt])
    [] op \in {"CreateFineTune", "CreateFineTuneWithOptions", "GetFineTune"} ->
         FineTuneResponseType
    [] OTHER -> TStruct([id |-> TString, object |-> TString])

(***************************************************************************)
(* Responses and the response normaliser.                                  *)
(***************************************************************************)
Statuses == {199, 200, 299, 300, 404, 500}

\* A response body read to its end: the bytes it yields, and whether the
\* read then fails (instead of ending with io.EOF).
Body(text, readErr) == [text |-> text, readErr |-> readErr]
BodyTexts ==
  {<<>>, <<"unknown error">>, <<"ENV_tm">>, <<"ENV_sc">>, <<"ENV_sc_null">>,
   <<"ENV_sc_str">>, <<"ENV_type_num">>, <<"OBJ_empty">>, <<"OBJ_other">>,
   <<"ERR_str">>, <<"NULL">>, <<"STR">>, <<"CR1">>, <<"CR_badtype">>,
   <<"LIST">>, <<"EDIT">>, <<"FILE">>, <<"FT_pending">>, <<"FT_done">>,
   <<SP, "ENV_tm", NL>>, <<"ENV_tm", "unknown error">>, <<"CR1", "unknown error">>,
   <<"CR2", SP, "CR1">>}
Bodies ==
  {Body(t, FALSE) : t \in BodyTexts}
    \cup {Body(<<>>, TRUE), Body(<<"ENV_tm">>, TRUE), Body(<<"unknown error">>, TRUE)}
\* the body of a streaming response, which the read loop reads line by line
LiveBody == [text |-> <<>>, readErr |-> FALSE, live |-> TRUE]

NoResponse == [kind |-> "none"]
Response(status, body) == [kind |-> "response", StatusCode |-> status, Body |-> body]

APIError(status, type, message) ==
  [kind |-> "APIError", StatusCode |-> status, Type |-> type, Message |-> message]

\* strconv of a non-negative integer, as fmt's %d prints it
Digit(d) == <<"0", "1", "2", "3", "4", "5", "6", "7", "8", "9">>[d + 1]
RECURSIVE Itoa(_)
Itoa(n) == IF n < 10 THEN <<Digit(n)>> ELSE Itoa(n \div 10) \o <<Digit(n % 10)>>

\* APIError.Error()
APIErrorString(e) ==
  <<"[">> \o Itoa(e.StatusCode) \o <<":">> \o e.Type \o <<"] ">> \o e.Message

\* ioutil.ReadAll(resp.Body)
ReadAll(body) ==
  [data |-> body.text, err |-> IF body.readErr THEN ReadError ELSE NoError]

\* checkForSuccess, its branch for a body json.Unmarshal rejects
UnexpectedError_dropsBody(resp, data) ==
  APIError(resp.StatusCode, <<"Unexpected">>, <<>>)
UnexpectedError(resp, data) == APIError(resp.StatusCode, <<"Unexpected">>, data)

\* checkForSuccess, its last two lines: the decoded error, with the status
\* code of the response
EnvelopeError_keepsBodyStatus(resp, result) ==
  APIError(result.error.status_code, result.error.type, result.error.message)
EnvelopeError(resp, result) ==
  APIError(resp.StatusCode, result.error.type, result.error.message)

\* checkForSuccess: the error it returns, and whether it closed the body.
checkForSuccess_ignoresReadError(resp) ==
  IF resp.StatusCode >= 200 /\ resp.StatusCode < 300
  THEN [err |-> NoError, closed |-> FALSE]
  ELSE LET rd == ReadAll(resp.Body)
           result == Unmarshal(rd.data, APIErrorResponseType)
       IN IF result.err # NoError
          THEN [err |-> UnexpectedError(resp, rd.data), closed |-> TRUE]
          ELSE [err |-> EnvelopeError(resp, result.v), closed |-> TRUE]
checkForSuccess_leaksUnreadBody(resp) ==
  IF resp.StatusCode >= 200 /\ resp.StatusCode < 300
  THEN [err |-> NoError, closed |-> FALSE]
  ELSE LET rd == ReadAll(resp.Body) IN
       IF rd.err # NoError
       THEN [err |-> Errorf("failed to read from body: ", rd.err), closed |-> FALSE]
       ELSE LET result == Unmarshal(rd.data, APIErrorResponseType) IN
            IF result.err # NoError
            THEN [err |-> UnexpectedError(resp, rd.data), closed |-> TRUE]
            ELSE [err |-> EnvelopeError(resp, result.v), closed |-> TRUE]
checkForSuccess(resp) ==
  IF resp.StatusCode >= 200 /\ resp.StatusCode < 300
  THEN [err |-> NoError, closed |-> FALSE]
  ELSE LET rd == ReadAll(resp.Body) IN
       IF rd.err # NoError
       THEN [err |-> Errorf("failed to read from body: ", rd.err), closed |-> TRUE]
       ELSE LET result == Unmarshal(rd.data, APIErrorResponseType) IN
            IF result.err # NoError
            THEN [err |-> UnexpectedError(resp, rd.data), closed |-> TRUE]
            ELSE [err |-> EnvelopeError(resp, result.v), closed |-> TRUE]

\* getResponseObject: decodes the body into a value of type ty and closes it.
NilResult == [kind |-> "nil"]
Result(v) == [kind |-> "value", v |-> v]
getResponseObject_ignoresError(rsp, ty) ==
  LET d == DecoderDecode(rsp.Body, ty) IN
  [err |-> NoError, v |-> Result(d.v), closed |-> TRUE]
getResponseObject(rsp, ty) ==
  LET d == DecoderDecode(rsp.Body, ty) IN
  IF d.err # NoError
  THEN [err |-> Errorf("invalid json response: ", d.err), v |-> NilResult,
        closed |-> TRUE]
  ELSE [err |-> NoError, v |-> Result(d.v), closed |-> TRUE]

\* http.Client.Do failing: Go wraps the transport's error in a *url.Error
\* carrying the method (first letter upper case, the rest lower) and the URL.
UrlErrorOp(method) ==
  CASE method = "GET" -> "Get" [] method = "POST" -> "Post"
    [] method = "DELETE" -> "Delete"
UrlError(req, cause) ==
  [kind |-> "url.Error", Op |-> UrlErrorOp(req.method), URL |-> req.url,
   Err |-> cause]

\* What the transport does with one request: it fails, or it responds.
TransportError(cause) == [kind |-> "error", cause |-> cause]
TransportResponse(resp) == [kind |-> "response", resp |-> resp]

\* performRequest: one call of the transport, then checkForSuccess.
performRequest_rewraps(req, outcome) ==
  IF outcome.kind = "error"
  THEN [err |-> Errorf("request failed: ", outcome.cause), resp |-> NoResponse,
        closed |-> FALSE]
  ELSE LET chk == checkForSuccess(outcome.resp) IN
       IF chk.err # NoError
       THEN [err |-> chk.err, resp |-> NoResponse, closed |-> chk.closed]
       ELSE [err |-> NoError, resp |-> outcome.resp, closed |-> chk.closed]
performRequest(req, outcome) ==
  IF outcome.kind = "error"
  THEN [err |-> UrlError(req, outcome.cause), resp |-> NoResponse, closed |-> FALSE]
  ELSE LET chk == checkForSuccess(outcome.resp) IN
       IF chk.err # NoError
       THEN [err |-> chk.err, resp |-> NoResponse, closed |-> chk.closed]
       ELSE [err |-> NoError, resp |-> outcome.resp, closed |-> chk.closed]

(***************************************************************************)
(* The state: the client, and the calls made on it.                        *)
(***************************************************************************)
VARIABLES client, calls
vars == <<client, calls>>

CallIds == {1}

\* A call of an operation.
\*   pc         "idle", "sent" (the transport holds the request), "reading"
\*              (the streaming loop is between two iterations), "done"
\*   in         what the caller passed; the caller's own request value
\*   req        the request handed to the transport
\*   doCalls    how often the transport was invoked
\*   got        the response the transport returned
\*   closes     how often the response body was closed
\*   buf        complete lines held in the bufio.Reader's buffer
\*   served     lines the server has sent so far
\*   reads      what reader.ReadBytes returned, call by call
\*   delivered  the arguments of the onData invocations, in order
\*   result, err  what the operation returned
\*   readClosed whether the body was read after it had been closed
\*   cancelled  whether the caller's context is cancelled, and how many
\*   atCancel   events had been delivered when it was
IdleCall ==
  [pc |-> "idle", op |-> "none", in |-> NoInput, req |-> NoRequest, doCalls |-> 0,
   got |-> NoResponse, closes |-> 0, buf |-> <<>>, served |-> 0, reads |-> <<>>,
   delivered |-> <<>>, result |-> NilResult, err |-> NoError,
   readClosed |-> FALSE, cancelled |-> FALSE, atCancel |-> 0]

Init ==
  /\ client \in Clients
  /\ calls = [k \in CallIds |-> IdleCall]

\* An operation from its entry to its call of the transport: the request is
\* built, and the operation returns at once when that fails.
Start(c, op, in) ==
  LET b == BuildRequest(c, op, in) IN
  IF b.err # NoError
  THEN [IdleCall EXCEPT !.pc = "done", !.op = op, !.in = in, !.err = b.err]
  ELSE [IdleCall EXCEPT !.pc = "sent", !.op = op, !.in = in, !.req = b.req]

Invoke(k) ==
  /\ calls[k].pc = "idle"
  /\ \E op \in Ops : \E in \in InputsOf(op) :
       calls' = [calls EXCEPT ![k] = Start(client, op, in)]
  /\ UNCHANGED client

\* An operation from the transport's return on: performRequest's check of
\* the status, then getResponseObject, or the entry into the read loop.
AfterTransport_retries(call, outcome) ==
  LET p == performRequest(call.req, outcome)
      c1 == [call EXCEPT !.doCalls = @ + 1,
                         !.got = IF outcome.kind = "response" THEN outcome.resp
                                 ELSE NoResponse,
                         !.closes = @ + (IF p.closed THEN 1 ELSE 0)]
  IN IF p.err # NoError
     THEN IF outcome.kind = "error" /\ call.doCalls = 0 THEN c1
          ELSE [c1 EXCEPT !.pc = "done", !.err = p.err]
     ELSE IF call.op \in StreamOps THEN [c1 EXCEPT !.pc = "reading"]
     ELSE LET g == getResponseObject(p.resp, ResultType(call.op)) IN
          [c1 EXCEPT !.pc = "done", !.err = g.err, !.result = g.v,
                     !.readClosed = c1.closes > 0,
                     !.closes = @ + (IF g.closed THEN 1 ELSE 0)]
AfterTransport(call, outcome) ==
  LET p == performRequest(call.req, outcome)
      c1 == [call EXCEPT !.doCalls = @ + 1,
                         !.got = IF outcome.kind = "response" THEN outcome.resp
                                 ELSE NoResponse,
                         !.closes = @ + (IF p.closed THEN 1 ELSE 0)]
  IN IF p.err # NoError THEN [c1 EXCEPT !.pc = "done", !.err = p.err]
     ELSE IF call.op \in StreamOps THEN [c1 EXCEPT !.pc = "reading"]
     ELSE LET g == getResponseObject(p.resp, ResultType(call.op)) IN
          [c1 EXCEPT !.pc = "done", !.err = g.err, !.result = g.v,
                     !.readClosed = c1.closes > 0,
                     !.closes = @ + (IF g.closed THEN 1 ELSE 0)]

\* The transport's outcomes for a call: a transport that honours the
\* request's context fails once the context is cancelled.  The body of a
\* successful streaming response is read by the loop, line by line.
Outcomes(call) ==
  IF call.cancelled THEN {TransportError(Canceled)}
  ELSE {TransportError([kind |-> "request error"])}
         \cup {TransportResponse(Response(s, b)) :
                 s \in (IF call.op \in StreamOps THEN Statuses \ {200, 299}
                        ELSE Statuses),
                 b \in Bodies}
         \cup (IF call.op \in StreamOps
               THEN {TransportResponse(Response(s, LiveBody)) : s \in {200, 299}}
               ELSE {})

Respond(k) ==
  /\ calls[k].pc = "sent"
  /\ \E outcome \in Outcomes(calls[k]) :
       calls' = [calls EXCEPT ![k] = AfterTransport(calls[k], outcome)]
  /\ UNCHANGED client

(***************************************************************************)
(* The streaming read loop of CompletionStreamWithEngine.                  *)
(***************************************************************************)
dataPrefix == <<"data:", SP>>
doneSequence == <<"[DONE]">>

\* the lines a server may send (without their final newline)
LineTexts ==
  {<<"data:", SP, "CR1">>,
   <<SP, "data:", SP, "CR2", SP>>,
   <<"data:", SP, "[DONE]">>,
   <<"data:", SP, "[DONE]", "unknown error">>,
   <<>>,
   <<"data:", SP>>,
   <<"data:", SP, "unknown error">>,
   <<"data:", SP, "CR_badtype">>}
\* the ways a read of the body fails: the bytes of an unfinished last line
\* it had got, and the error
ReadFailures ==
  {[partial |-> <<>>, err |-> EOF], [partial |-> <<>>, err |-> ReadError],
   [partial |-> <<"data:", SP, "[DONE]">>, err |-> EOF]}

Chunks == UNION {[1..n -> LineTexts] : n \in 1..MaxChunk}

\* reader.ReadBytes('\n') on the bufio.Reader: a complete line of the buffer
\* if it holds one; otherwise the body is read, which yields some complete
\* lines (the first is returned, the others stay in the buffer) or fails (the
\* bytes read so far are returned with the error).  The body of a cancelled
\* request fails with the context's error.
ReadBytes(call) ==
  IF call.buf # <<>>
  THEN {[line |-> Head(call.buf) \o <<NL>>, err |-> NoError, buf |-> Tail(call.buf),
         served |-> 0]}
  ELSE {[line |-> Head(ch) \o <<NL>>, err |-> NoError, buf |-> Tail(ch),
         served |-> Len(ch)] :
          ch \in {x \in Chunks : ~call.cancelled /\ call.served + Len(x) <= MaxLines}}
       \cup (IF call.cancelled
             THEN {[line |-> <<>>, err |-> Canceled, buf |-> <<>>, served |-> 0]}
             ELSE {[line |-> f.partial, err |-> f.err, buf |-> <<>>, served |-> 0] :
                     f \in ReadFailures})

\* the loop's exit: the deferred resp.Body.Close() runs
ExitLoop_leaksBody(call, err) == [call EXCEPT !.pc = "done", !.err = err]
ExitLoop(call, err) == [call EXCEPT !.pc = "done", !.err = err, !.closes = @ + 1]

\* One iteration of the loop, rd being what ReadBytes returned.
LoopIteration_skipsMalformed(call, rd) ==
  LET c1 == [call EXCEPT !.buf = rd.buf, !.served = @ + rd.served,
                         !.readClosed = @ \/ (call.buf = <<>> /\ call.closes > 0),
                         !.reads = Append(@, [line |-> rd.line, err |-> rd.err])]
  IN IF rd.err # NoError THEN ExitLoop(c1, rd.err)
     ELSE LET line == TrimSpace(rd.line) IN
          IF ~HasPrefix(line, dataPrefix) THEN c1
          ELSE LET data == TrimPrefix(line, dataPrefix) IN
               IF HasPrefix(data, doneSequence) THEN ExitLoop(c1, NoError)
               ELSE LET output == Unmarshal(data, CompletionResponseType) IN
                    IF output.err # NoError THEN c1
                    ELSE [c1 EXCEPT !.delivered = Append(@, output.v)]
LoopIteration_endsOnEOF(call, rd) ==
  LET c1 == [call EXCEPT !.buf = rd.buf, !.served = @ + rd.served,
                         !.readClosed = @ \/ (call.buf = <<>> /\ call.closes > 0),
                         !.reads = Append(@, [line |-> rd.line, err |-> rd.err])]
  IN IF rd.err # NoError THEN ExitLoop(c1, IF rd.err = EOF THEN NoError ELSE rd.err)
     ELSE LET line == TrimSpace(rd.line) IN
          IF ~HasPrefix(line, dataPrefix) THEN c1
          ELSE LET data == TrimPrefix(line, dataPrefix) IN
               IF HasPrefix(data, doneSequence) THEN ExitLoop(c1, NoError)
               ELSE LET output == Unmarshal(data, CompletionResponseType) IN
                    IF output.err # NoError
                    THEN ExitLoop(c1, Errorf("invalid json stream data: ", output.err))
                    ELSE [c1 EXCEPT !.delivered = Append(@, output.v)]
LoopIteration(call, rd) ==
  LET c1 == [call EXCEPT !.buf = rd.buf, !.served = @ + rd.served,
                         !.readClosed = @ \/ (call.buf = <<>> /\ call.closes > 0),
                         !.reads = Append(@, [line |-> rd.line, err |-> rd.err])]
  IN IF rd.err # NoError THEN ExitLoop(c1, rd.err)
     ELSE LET line == TrimSpace(rd.line) IN
          IF ~HasPrefix(line, dataPrefix) THEN c1
          ELSE LET data == TrimPrefix(line, dataPrefix) IN
               IF HasPrefix(data, doneSequence) THEN ExitLoop(c1, NoError)
               ELSE LET output == Unmarshal(data, CompletionResponseType) IN
                    IF output.err # NoError
                    THEN ExitLoop(c1, Errorf("invalid json stream data: ", output.err))
                    ELSE [c1 EXCEPT !.delivered = Append(@, output.v)]

StreamStep(k) ==
  /\ calls[k].pc = "reading"
  /\ \E rd \in ReadBytes(calls[k]) :
       calls' = [calls EXCEPT ![k] = LoopIteration(calls[k], rd)]
  /\ UNCHANGED client

\* The caller cancels the context it passed to the call.
Cancel(k) ==
  /\ calls[k].pc \in {"sent", "reading"}
  /\ ~calls[k].cancelled
  /\ calls' = [calls EXCEPT ![k] = [@ EXCEPT !.cancelled = TRUE,
                                              !.atCancel = Len(calls[k].delivered)]]
  /\ UNCHANGED client

Next == \E k \in CallIds : Invoke(k) \/ Respond(k) \/ StreamStep(k) \/ Cancel(k)
Spec == Init /\ [][Next]_vars

(***************************************************************************)
(* Concurrent calls on one client: goroutines that share the *client and   *)
(* each run one operation, their steps interleaved.  The operations are    *)
(* the ones above; the callers, the server and the stream are drawn from   *)
(* fewer cases.                                                            *)
(***************************************************************************)
ConcurrentIds == 1..MaxCalls
ConcurrentOps == {"Engines", "Completion", "CompletionStreamWithEngine"}
ConcurrentInputs(op) == {in \in InputsOf(op) : ~in.Stream /\ ~in.nan}
ConcurrentBodies == {Body(<<"ENV_tm">>, FALSE), Body(<<"CR1">>, FALSE), LiveBody}
ConcurrentOutcomes(call) ==
  {o \in Outcomes(call) :
     \/ o.kind = "error"
     \/ o.resp.StatusCode \in {200, 404} /\ o.resp.Body \in ConcurrentBodies}
ConcurrentLines == {<<"data:", SP, "CR1", NL>>, <<"data:", SP, "[DONE]", NL>>}
ConcurrentReads(call) ==
  {rd \in ReadBytes(call) :
     /\ rd.buf = <<>>
     /\ \/ rd.err = NoError /\ rd.line \in ConcurrentLines
        \/ rd.err \in {EOF, Canceled} /\ rd.line = <<>>}

InitConcurrent ==
  /\ client \in Clients
  /\ calls = [k \in ConcurrentIds |-> IdleCall]

\* Goroutine k enters an operation, k's transport call returns, k's read
\* loop runs one iteration, k's caller cancels its context.
InvokeConcurrent_setsEngine(k) ==
  /\ calls[k].pc = "idle"
  /\ \E op \in ConcurrentOps : \E in \in ConcurrentInputs(op) :
       /\ calls' = [calls EXCEPT ![k] = Start(client, op, in)]
       /\ client' = IF op \in ArgOps THEN [client EXCEPT !.defaultEngine = in.arg]
                    ELSE client
InvokeConcurrent(k) ==
  /\ calls[k].pc = "idle"
  /\ \E op \in ConcurrentOps : \E in \in ConcurrentInputs(op) :
       calls' = [calls EXCEPT ![k] = Start(client, op, in)]
  /\ UNCHANGED client
RespondConcurrent(k) ==
  /\ calls[k].pc = "sent"
  /\ \E outcome \in ConcurrentOutcomes(calls[k]) :
       calls' = [calls EXCEPT ![k] = AfterTransport(calls[k], outcome)]
  /\ UNCHANGED client
StreamStepConcurrent(k) ==
  /\ calls[k].pc = "reading"
  /\ \E rd \in ConcurrentReads(calls[k]) :
       calls' = [calls EXCEPT ![k] = LoopIteration(calls[k], rd)]
  /\ UNCHANGED client
\* (here: before the first line of its stream has been read)
CancelConcurrent(k) ==
  /\ calls[k].pc = "reading"
  /\ calls[k].reads = <<>>
  /\ Cancel(k)

NextConcurrent ==
  \E k \in ConcurrentIds :
    \/ InvokeConcurrent(k)
    \/ RespondConcurrent(k)
    \/ StreamStepConcurrent(k)
    \/ CancelConcurrent(k)
SpecConcurrent == InitConcurrent /\ [][NextConcurrent]_vars

(***************************************************************************)
(* The properties.                                                         *)
(***************************************************************************)
Done(call) == call.pc = "done"
Responded(call) == call.got.kind = "response"
Is2xx(status) == status >= 200 /\ status < 300
\* the call got a response outside [200,300) whose body could be read
FailedReadable(call) ==
  /\ Done(call) /\ Responded(call)
  /\ ~Is2xx(call.got.StatusCode)
  /\ ~call.got.Body.readErr

\* A JSON member that is absent, or present with a value of kind t or null.
MemberIs(obj, name, kinds) ==
  name \in DOMAIN obj.f => obj.f[name].t \in kinds \cup {"null"}
\* The text is one JSON value.
IsJSON(text) == LET t == TrimSpace(text) IN Len(t) = 1 /\ IsValue(t[1])
TreeOf(text) == JSONValueOf(TrimSpace(text)[1])
\* The text is the error envelope {"error":{"type":T,"message":M}}; beside
\* them the error object may carry an integer (or null) status_code.
IsEnvelope(text) ==
  /\ IsJSON(text)
  /\ LET v == TreeOf(text) IN
       /\ v.t = "obj" /\ "error" \in DOMAIN v.f /\ v.f.error.t = "obj"
       /\ LET e == v.f.error IN
            /\ {"type", "message"} \subseteq DOMAIN e.f
            /\ e.f.type.t = "str" /\ e.f.message.t = "str"
            /\ MemberIs(e, "status_code", {"num"})
EnvelopeType(text) == TreeOf(text).f.error.f.type.s
EnvelopeMessage(text) == TreeOf(text).f.error.f.message.s

\* C1: whenever an operation got a response with a status outside
\* [200,300) whose body is a well-formed error envelope with type T and
\* message M, it returns no result and the APIError {HTTP status, T, M},
\* whatever status_code the body carries, and that error prints as
\* "[<status>:<T>] <M>".
C1_EnvelopeYieldsAPIError ==
  \A k \in CallIds :
    LET call == calls[k] IN
    (FailedReadable(call) /\ IsEnvelope(call.got.Body.text)) =>
      LET T == EnvelopeType(call.got.Body.text)
          M == EnvelopeMessage(call.got.Body.text)
          status == call.got.StatusCode
      IN /\ call.result = NilResult
         /\ call.err = APIError(status, T, M)
         /\ APIErrorString(call.err) =
              <<"[">> \o Itoa(status) \o <<":">> \o T \o <<"] ">> \o M
C1_Witness ==
  \E k \in CallIds :
    /\ FailedReadable(calls[k])
    /\ calls[k].got.StatusCode = 404
    /\ calls[k].got.Body.text = <<"ENV_sc">>
    /\ calls[k].err = APIError(404, <<"t2">>, <<"m2">>)
    /\ APIErrorString(calls[k].err) = <<"[", "4", "0", "4", ":", "t2", "] ", "m2">>

\* C2, as claimed: whenever an operation got a response with a status
\* outside [200,300) whose readable body is not the error envelope (plain
\* text, an empty body, or JSON that is not the envelope), it returns the
\* APIError {HTTP status, "Unexpected", raw body}.
C2_NonEnvelopeYieldsUnexpected ==
  \A k \in CallIds :
    LET call == calls[k] IN
    (FailedReadable(call) /\ ~IsEnvelope(call.got.Body.text)) =>
      call.err = APIError(call.got.StatusCode, <<"Unexpected">>, call.got.Body.text)

\* The bodies json.Unmarshal rejects for an APIErrorResponse: not one JSON
\* value, a value that is neither an object nor null, or an object in which
\* error, type, message or status_code has a value of the wrong JSON kind.
Undecodable(text) ==
  \/ ~IsJSON(text)
  \/ LET v == TreeOf(text) IN
       \/ v.t \notin {"obj", "null"}
       \/ /\ v.t = "obj" /\ "error" \in DOMAIN v.f
          /\ \/ v.f.error.t \notin {"obj", "null"}
             \/ /\ v.f.error.t = "obj"
                /\ ~(/\ MemberIs(v.f.error, "type", {"str"})
                     /\ MemberIs(v.f.error, "message", {"str"})
                     /\ MemberIs(v.f.error, "status_code", {"num"}))
\* the string member `name` of the error object of a decodable body, ""
\* when the body has none
ErrorMember(text, name) ==
  LET v == TreeOf(text) IN
  IF v.t = "obj" /\ "error" \in DOMAIN v.f /\ v.f.error.t = "obj"
     /\ name \in DOMAIN v.f.error.f /\ v.f.error.f[name].t = "str"
  THEN v.f.error.f[name].s
  ELSE <<>>

\* C2, amended: whenever an operation got a response with a status outside
\* [200,300) whose readable body json.Unmarshal rejects for an
\* APIErrorResponse, it returns the APIError {HTTP status, "Unexpected", raw
\* body}; for every other body (a JSON object or null, with or without the
\* envelope's members) it returns the APIError {HTTP status, the error
\* object's type or "", the error object's message or ""}.
C2_UndecodableYieldsUnexpected ==
  \A k \in CallIds :
    LET call == calls[k] IN
    FailedReadable(call) =>
      LET text == call.got.Body.text
          status == call.got.StatusCode
      IN /\ call.result = NilResult
         /\ Undecodable(text) => call.err = APIError(status, <<"Unexpected">>, text)
         /\ ~Undecodable(text) =>
              call.err = APIError(status, ErrorMember(text, "type"),
                                  ErrorMember(text, "message"))
C2_Witness ==
  \E k \in CallIds :
    /\ FailedReadable(calls[k])
    /\ calls[k].got.StatusCode = 500
    /\ calls[k].got.Body.text = <<"unknown error">>
    /\ calls[k].err = APIError(500, <<"Unexpected">>, <<"unknown error">>)

\* the bytes of the response body the call has read
RECURSIVE Concat(_)
Concat(lines) == IF lines = <<>> THEN <<>> ELSE Head(lines).line \o Concat(Tail(lines))
BodyBytes(call) ==
  IF "live" \in DOMAIN call.got.Body THEN Concat(call.reads) ELSE call.got.Body.text
BodyReadFailed(call) ==
  IF "live" \in DOMAIN call.got.Body
  THEN \E i \in 1..Len(call.reads) : call.reads[i].err \notin {NoError, EOF}
  ELSE call.got.Body.readErr
IsDecodeError(err) ==
  /\ err.kind = "fmt.Errorf" /\ err.prefix = "invalid json response: "
  /\ err.cause.kind \in {"json.SyntaxError", "io.EOF"}

\* C3, as claimed: whenever an operation, streaming or not, got a response
\* with status 200 whose body is not valid JSON, it returns no result and
\* the error "invalid json response: <underlying JSON error>".
C3_InvalidJSONYieldsDecodeError ==
  \A k \in CallIds :
    LET call == calls[k] IN
    (/\ Done(call) /\ Responded(call) /\ call.got.StatusCode = 200
     /\ ~BodyReadFailed(call) /\ ~IsJSON(BodyBytes(call))) =>
      call.result = NilResult /\ IsDecodeError(call.err)

\* No JSON value starts the text.
NoLeadingValue(text) == LET t == TrimLeft(text) IN t = <<>> \/ ~IsValue(t[1])

\* C3, amended: whenever an operation other than the two streaming ones got
\* a response with status 200 whose readable body does not start (after
\* white space) with a complete JSON value, it returns no result and the
\* error "invalid json response: <the decoder's error>".
C3_NoLeadingValueYieldsDecodeError ==
  \A k \in CallIds :
    LET call == calls[k] IN
    (/\ Done(call) /\ Responded(call) /\ call.got.StatusCode = 200
     /\ call.op \notin StreamOps
     /\ ~call.got.Body.readErr /\ NoLeadingValue(call.got.Body.text)) =>
      call.result = NilResult /\ IsDecodeError(call.err)
C3_Witness ==
  \E k \in CallIds :
    /\ Done(calls[k]) /\ Responded(calls[k]) /\ calls[k].got.StatusCode = 200
    /\ calls[k].op = "Engines"
    /\ calls[k].got.Body = Body(<<"unknown error">>, FALSE)
    /\ calls[k].err = Errorf("invalid json response: ", SyntaxError("invalid character"))

\* the transport failed for the call's request
TransportFailed(call) == Done(call) /\ call.doCalls = 1 /\ ~Responded(call)

\* C4: whenever the transport returns an error for the request of an
\* operation, the operation returns no result and an error that names the
\* method and the URL of the request and carries the transport's error, and
\* onData has not been invoked.
C4_TransportErrorIsReturned ==
  \A k \in CallIds :
    LET call == calls[k] IN
    TransportFailed(call) =>
      /\ call.err.kind = "url.Error"
      /\ call.err.Op = UrlErrorOp(call.req.method)
      /\ call.err.URL = call.req.url
      /\ call.err.Err.kind \in {"request error", "context canceled"}
      /\ call.result = NilResult
      /\ call.delivered = <<>>
C4_Witness ==
  \E k \in CallIds :
    /\ TransportFailed(calls[k])
    /\ calls[k].op = "CompletionStream"
    /\ calls[k].err =
         [kind |-> "url.Error", Op |-> "Post",
          URL |-> <<"https://api.openai.com/v1", "/engines/", "davinci", "/completions">>,
          Err |-> [kind |-> "request error"]]
\* the call is in, or has left, the streaming read loop
InLoop(call) == Responded(call) /\ "live" \in DOMAIN call.got.Body

\* What a line the reader returned is, by the framing of the stream: "fail"
\* (the read failed), "skip" (trimmed, it does not start with "data: "),
\* "done" (its payload begins with [DONE]), "malformed" (its payload is not
\* the JSON of a CompletionResponse) or "event".
Payload(rd) == TrimPrefix(TrimSpace(rd.line), dataPrefix)
FrameKind(rd) ==
  IF rd.err # NoError THEN "fail"
  ELSE IF ~HasPrefix(TrimSpace(rd.line), dataPrefix) THEN "skip"
  ELSE IF HasPrefix(Payload(rd), doneSequence) THEN "done"
  ELSE IF Unmarshal(Payload(rd), CompletionResponseType).err # NoError THEN "malformed"
  ELSE "event"
Terminal(rd) == FrameKind(rd) \in {"fail", "done", "malformed"}
\* the lines read before the first [DONE] frame, malformed data line or
\* read failure
BeforeEnd(reads) ==
  LET ends == {i \in 1..Len(reads) : Terminal(reads[i])}
      first == IF ends = {} THEN Len(reads) + 1
               ELSE CHOOSE i \in ends : \A j \in ends : i <= j
  IN SubSeq(reads, 1, first - 1)
IsEvent(rd) == FrameKind(rd) = "event"
\* the decoded payloads of the well-formed data lines among them, in order
RECURSIVE Payloads(_)
Payloads(reads) ==
  IF reads = <<>> THEN <<>>
  ELSE <<Unmarshal(Payload(Head(reads)), CompletionResponseType).v>>
         \o Payloads(Tail(reads))
ExpectedEvents(reads) == Payloads(SelectSeq(BeforeEnd(reads), IsEvent))

\* C5: at every moment of the streaming loop the onData invocations so far
\* are exactly the decoded payloads of the well-formed "data: " lines read
\* before the first [DONE] frame, malformed data line or read failure, in
\* order and once each; nothing is read after that line; a line that
\* (trimmed) lacks the prefix ends nothing; and a malformed data line makes
\* the call return "invalid json stream data: <cause>".
C5_DeliveredAreEventsBeforeEnd ==
  \A k \in CallIds :
    LET call == calls[k] IN
    InLoop(call) =>
      /\ call.delivered = ExpectedEvents(call.reads)
      /\ \A i \in 1..Len(call.reads) : Terminal(call.reads[i]) => i = Len(call.reads)
      /\ Done(call) <=> (call.reads # <<>> /\ Terminal(call.reads[Len(call.reads)]))
      /\ (Done(call) /\ FrameKind(call.reads[Len(call.reads)]) = "malformed") =>
           /\ call.err.kind = "fmt.Errorf"
           /\ call.err.prefix = "invalid json stream data: "
           /\ call.err.cause = Unmarshal(Payload(call.reads[Len(call.reads)]),
                                         CompletionResponseType).err
C5_Witness ==
  \E k \in CallIds :
    LET call == calls[k] IN
    /\ InLoop(call) /\ Done(call) /\ Len(call.reads) = 3
    /\ FrameKind(call.reads[1]) = "event"
    /\ FrameKind(call.reads[2]) = "skip"
    /\ FrameKind(call.reads[3]) = "malformed"
    /\ call.delivered = <<[id |-> <<"c1">>, created |-> 1]>>
    /\ call.err = Errorf("invalid json stream data: ", SyntaxError("invalid character"))

\* C6: the streaming call returns nil exactly when the line that ended the
\* loop is a data frame whose payload begins with [DONE]; when the loop
\* ended on a failed read (the end of the stream included) it returns that
\* read's error.
C6_NilIffDoneFrame ==
  \A k \in CallIds :
    LET call == calls[k] IN
    (InLoop(call) /\ Done(call)) =>
      LET last == call.reads[Len(call.reads)] IN
      /\ call.err = NoError <=> FrameKind(last) = "done"
      /\ FrameKind(last) = "fail" => call.err = last.err
      /\ \A i \in 1..(Len(call.reads) - 1) : ~Terminal(call.reads[i])
C6_Witness ==
  \E k \in CallIds :
    LET call == calls[k] IN
    /\ InLoop(call) /\ Done(call) /\ Len(call.reads) = 2
    /\ FrameKind(call.reads[1]) = "event"
    /\ call.reads[2] = [line |-> <<"data:", SP, "[DONE]">>, err |-> EOF]
    /\ call.err = EOF

\* C7: when the streaming call has returned from its read loop, whichever
\* way the loop ended, the response body has been closed.
C7_BodyClosedOnExit ==
  \A k \in CallIds :
    (InLoop(calls[k]) /\ Done(calls[k])) => calls[k].closes >= 1
C7_Witness ==
  \E k \in CallIds :
    LET call == calls[k] IN
    /\ InLoop(call) /\ Done(call) /\ call.closes = 1
    /\ FrameKind(call.reads[Len(call.reads)]) = "malformed"

\* C8, as claimed: once the context of a streaming call is cancelled while
\* the loop is reading, onData is invoked for no further event, and the
\* call returns an error, with the response body closed.
C8_CancelStopsDelivery ==
  \A k \in CallIds :
    LET call == calls[k] IN
    (InLoop(call) /\ call.cancelled) =>
      /\ Len(call.delivered) = call.atCancel
      /\ Done(call) => (call.err # NoError /\ call.closes >= 1)

HeaderIs(req, name, value) == name \in DOMAIN req.header /\ req.header[name] = value

\* C9, as claimed: the request every operation hands to the transport has
\* the header Authorization: Bearer <API key>, and has the header
\* OpenAI-Organization, with the configured id, exactly when that id is
\* not empty.
C9_AuthAndOrganizationHeaders ==
  \A k \in CallIds :
    LET req == calls[k].req IN
    req.kind = "request" =>
      /\ HeaderIs(req, "Authorization", <<"Bearer ">> \o client.apiKey)
      /\ IF client.idOrg # <<>>
         THEN HeaderIs(req, "OpenAI-Organization", client.idOrg)
         ELSE "OpenAI-Organization" \notin DOMAIN req.header

\* the stream member of the JSON body of a request (absent means false)
WireStream(req) ==
  "stream" \in DOMAIN req.body.json.f /\ req.body.json.f.stream = Bool(TRUE)

\* the wire form of the request of each completion operation
C10_WireStream ==
  \A k \in CallIds :
    LET call == calls[k] IN
    (call.op \in CompletionOps /\ call.req.kind = "request") =>
      /\ call.req.body.kind = "json"
      /\ WireStream(call.req) <=> call.op \in StreamOps
\* no step of a call changes the request value its caller holds
C10_CallerRequestKept ==
  \A k \in CallIds : calls[k].pc # "idle" => calls'[k].in = calls[k].in
\* C10: the request Completion and CompletionWithEngine hand to the
\* transport has stream false, the request CompletionStream and
\* CompletionStreamWithEngine hand to it has stream true, whatever Stream
\* the caller set; the caller's request keeps the value the caller set.
C10_StreamOverridden == []C10_WireStream /\ [][C10_CallerRequestKept]_vars
C10_Witness ==
  \E k \in CallIds :
    LET call == calls[k] IN
    /\ call.op = "Completion" /\ call.req.kind = "request"
    /\ call.in.Stream /\ ~WireStream(call.req)
\* C11: no operation retries: for every call the transport is invoked at
\* most once, never when building the request failed, and exactly once by
\* the time a call returns whose request was built, whatever the outcome
\* (transport error, status outside [200,300), unreadable body, decode
\* failure, success).
C11_NoRetry ==
  \A k \in CallIds :
    LET call == calls[k] IN
    /\ call.doCalls <= 1
    /\ call.req.kind = "none" => call.doCalls = 0
    /\ (Done(call) /\ call.req.kind = "request") => call.doCalls = 1
C11_Witness ==
  \E k \in CallIds :
    /\ TransportFailed(calls[k]) /\ calls[k].doCalls = 1
    /\ calls[k].err.kind = "url.Error"

\* C12: whenever an operation got a response with a status outside
\* [200,300) and reading its body fails, it returns no result and the error
\* "failed to read from body: <cause>", which is not an APIError.
C12_UnreadableBody ==
  \A k \in CallIds :
    LET call == calls[k] IN
    (/\ Done(call) /\ Responded(call) /\ ~Is2xx(call.got.StatusCode)
     /\ call.got.Body.readErr) =>
      /\ call.result = NilResult
      /\ call.err = Errorf("failed to read from body: ", ReadError)
      /\ call.err.kind # "APIError"
C12_Witness ==
  \E k \in CallIds :
    /\ Done(calls[k]) /\ Responded(calls[k])
    /\ calls[k].got = Response(500, Body(<<"ENV_tm">>, TRUE))
    /\ calls[k].err = Errorf("failed to read from body: ", ReadError)

\* <base URL>/engines/<engine>/<endpoint>
EngineURL(base, engine, endpoint) == base \o <<"/engines/">> \o engine \o <<endpoint>>
Endpoint(op) == IF op \in {"Search", "SearchWithEngine"} THEN "/search" ELSE "/completions"

\* C13: Completion, CompletionStream and Search POST to <base URL>/engines/
\* <default engine of the client>/completions (or /search), the default
\* engine being "davinci" for a client built without options; the
\* WithEngine variants POST to the same path with the engine the caller
\* passed, which here is never the default.
C13_EngineOfURL ==
  \A k \in CallIds :
    LET call == calls[k] IN
    call.req.kind = "request" =>
      /\ call.op \in {"Completion", "CompletionStream", "Search"} =>
           /\ call.req.method = "POST"
           /\ call.req.url =
                EngineURL(client.baseURL, client.defaultEngine, Endpoint(call.op))
           /\ client = NewClient(<<"test-key">>, <<>>, DefaultEngine) =>
                call.req.url = <<"https://api.openai.com/v1", "/engines/", "davinci",
                                 Endpoint(call.op)>>
      /\ call.op \in {"CompletionWithEngine", "CompletionStreamWithEngine",
                      "SearchWithEngine"} =>
           /\ call.req.method = "POST"
           /\ call.req.url = EngineURL(client.baseURL, call.in.arg, Endpoint(call.op))
           /\ call.req.url #
                EngineURL(client.baseURL, client.defaultEngine, Endpoint(call.op))
C13_Witness ==
  \E k \in CallIds :
    /\ calls[k].op = "SearchWithEngine" /\ calls[k].req.kind = "request"
    /\ client.defaultEngine = <<"curie">>
    /\ calls[k].req.url = <<"https://api.openai.com/v1", "/engines/", "ada", "/search">>
\* The tree is what encoding/json writes for some value of type ty: an
\* object with exactly the fields of the struct, strings and numbers where
\* the fields are, null or the element where a pointer is.
RECURSIVE IsEncodingOf(_, _)
IsEncodingOf(ty, tree) ==
  CASE ty.k = "string" -> tree.t = "str"
    [] ty.k = "int" -> tree.t = "num"
    [] ty.k = "ptr" -> tree.t = "null" \/ IsEncodingOf(ty.elem, tree)
    [] ty.k = "struct" ->
         /\ tree.t = "obj"
         /\ DOMAIN tree.f = DOMAIN ty.fields
         /\ \A fn \in DOMAIN ty.fields : IsEncodingOf(ty.fields[fn], tree.f[fn])
\* The response body is the serialisation of one value of type ty.
SerialisesA(ty, body) ==
  /\ ~body.readErr
  /\ Len(body.text) = 1
  /\ IsJSON(body.text)
  /\ IsEncodingOf(ty, TreeOf(body.text))

\* C14: when a non-streaming operation gets status 200 and a body that is
\* the JSON serialisation of a value of its result type, it returns no
\* error and a result that is that value: the result serialises to the body.
C14_DecodeAfterEncode ==
  \A k \in CallIds :
    LET call == calls[k]
        ty == ResultType(call.op)
    IN (/\ Done(call) /\ Responded(call) /\ call.op \notin StreamOps
        /\ call.got.StatusCode = 200
        /\ SerialisesA(ty, call.got.Body)) =>
         /\ call.err = NoError
         /\ call.result.kind = "value"
         /\ EncodeValue(ty, call.result.v) = TreeOf(call.got.Body.text)
C14_Witness ==
  \E k \in CallIds :
    /\ Done(calls[k]) /\ calls[k].op = "GetFineTune"
    /\ calls[k].got = Response(200, Body(<<"FT_pending">>, FALSE))
    /\ calls[k].result = Result([id |-> <<"ft-1">>, fine_tuned_model |-> NilPtr])
\* C16: every response the transport returned has its body closed exactly
\* once by the time the operation returns, whatever the status and whether
\* or not reading or decoding the body failed; until then it is closed at
\* most once and never while the read loop is still running; no body is
\* read after it has been closed; without a response nothing is closed.
C16_BodyClosedOnce ==
  \A k \in CallIds :
    LET call == calls[k] IN
    /\ call.closes <= 1
    /\ ~call.readClosed
    /\ call.pc = "reading" => call.closes = 0
    /\ ~Responded(call) => call.closes = 0
    /\ (Done(call) /\ Responded(call)) => call.closes = 1
C16_Witness ==
  \E k \in CallIds :
    /\ Done(calls[k]) /\ calls[k].op = "Engines"
    /\ calls[k].got = Response(404, Body(<<>>, TRUE))
    /\ calls[k].closes = 1
\* What a call returns, from its own arguments, the response it got and
\* the lines it read: the error of building the request; else the
\* transport's error in a *url.Error for the call's request; else what
\* checkForSuccess makes of the response; else what getResponseObject
\* decodes from it, or, for a stream, the events of its own lines and the
\* error its own last line gives.
OwnOutcome(c, call) ==
  LET b == BuildRequest(c, call.op, call.in) IN
  IF b.err # NoError
  THEN /\ Done(call) /\ call.req = NoRequest /\ call.doCalls = 0
       /\ call.err = b.err /\ call.result = NilResult /\ call.delivered = <<>>
  ELSE
    /\ call.req = b.req
    /\ (Done(call) /\ ~Responded(call)) =>
         /\ call.err.kind = "url.Error" /\ call.err.URL = b.req.url
         /\ call.result = NilResult /\ call.delivered = <<>>
    /\ (Done(call) /\ Responded(call) /\ ~Is2xx(call.got.StatusCode)) =>
         /\ call.err = checkForSuccess(call.got).err
         /\ call.result = NilResult /\ call.delivered = <<>>
    /\ (Done(call) /\ Responded(call) /\ Is2xx(call.got.StatusCode)
          /\ ~InLoop(call)) =>
         /\ call.err = getResponseObject(call.got, ResultType(call.op)).err
         /\ call.result = getResponseObject(call.got, ResultType(call.op)).v
    /\ InLoop(call) =>
         /\ call.delivered = ExpectedEvents(call.reads)
         /\ Done(call) =>
              LET last == call.reads[Len(call.reads)] IN
              call.err =
                IF FrameKind(last) = "malformed"
                THEN Errorf("invalid json stream data: ",
                            Unmarshal(Payload(last), CompletionResponseType).err)
                ELSE last.err
\* The configuration is the one NewClient returned.
C15_ConfigurationKept == client' = client
\* A step is a step of one call: the records of the others stay as they are.
C15_OneCallSteps ==
  \E k \in ConcurrentIds : \A j \in ConcurrentIds \ {k} : calls'[j] = calls[j]
C15_OwnOutcomes ==
  \A k \in ConcurrentIds : calls[k].pc # "idle" => OwnOutcome(client, calls[k])

\* C15: under every interleaving of concurrent calls on one client no step
\* writes the configuration (base URL, API key, organization id, default
\* engine, user agent), every step touches the record of one call only, and
\* what each call sent, delivered and returned is what its own arguments,
\* its own response and its own stream give.
C15_CallsIndependent ==
  /\ [][C15_ConfigurationKept /\ C15_OneCallSteps]_vars
  /\ []C15_OwnOutcomes
C15_Witness ==
  /\ calls[1].op = "CompletionStreamWithEngine" /\ calls[1].pc = "reading"
  /\ Len(calls[1].delivered) = 1
  /\ client.defaultEngine = <<"curie">>
  /\ calls[2].op = "Completion" /\ Done(calls[2])
  /\ calls[2].err.kind = "APIError"
  /\ calls[2].req.url =
       <<"https://api.openai.com/v1", "/engines/", "curie", "/completions">>
====
